---- MODULE Spec2Model ----
(***************************************************************************)
(* Model of the BOM merger script (src/main.py).                           *)
(*                                                                         *)
(* One run of the script: the uploaded workbooks are read and cleaned one  *)
(* by one inside a try/except, the cleaned frames are concatenated,        *)
(* grouped by (DESCRIPTION, LENGTH), filtered, sorted and exported.        *)
(*                                                                         *)
(* A text is a sequence of character codes, so that strip, the comparison  *)
(* of strings and the parsing of numbers are computed and not assumed.     *)
(* A cell of a workbook and a value of a DataFrame share one shape:        *)
(*   [k |-> "nan" | "str" | "num", s |-> text, n |-> number].              *)
(* Column headers are modelled after the strip of line 46.                 *)
(***************************************************************************)
EXTENDS Integers, Sequences, FiniteSets, TLC

VARIABLES
    nfiles,          \* len(uploaded_files)
    uploaded_files,  \* the files the loop has reached so far, in upload order
    pc,              \* position of the script
    all_dataframes,  \* cleaned frames, in append order
    appended_from,   \* for each frame of all_dataframes, the index of its file
    error_files,     \* indices (names) of the files recorded as errors
    merged_df,       \* the final table (<<>> before the merge)
    merges,          \* number of concat/groupby executions
    downloads        \* the workbooks handed to st.download_button

vars == <<nfiles, uploaded_files, pc, all_dataframes, appended_from,
          error_files, merged_df, merges, downloads>>

\* ------------------------------------------------------------------ bounds
MaxFiles == 2
MaxTotalRows == 3

\* ------------------------------------------------------------------ values
NaN == [k |-> "nan", s |-> <<>>, n |-> 0]
Str(t) == [k |-> "str", s |-> t, n |-> 0]
Num(i) == [k |-> "num", s |-> <<>>, n |-> i]

IsNull(v) == v.k = "nan"
IsStr(v) == v.k = "str"
IsNum(v) == v.k = "num"

Range(f) == {f[i] : i \in DOMAIN f}

\* characters str.strip() removes
Whitespace == {9, 10, 11, 12, 13, 32}

RECURSIVE LStrip(_)
LStrip(t) ==
    IF t # <<>> /\ Head(t) \in Whitespace THEN LStrip(Tail(t)) ELSE t

RECURSIVE RStrip(_)
RStrip(t) ==
    IF t # <<>> /\ t[Len(t)] \in Whitespace
    THEN RStrip(SubSeq(t, 1, Len(t) - 1))
    ELSE t

Strip(t) == RStrip(LStrip(t))

\* Python's comparison of strings: by code point, a proper prefix first
RECURSIVE StrLess(_, _)
StrLess(a, b) ==
    IF b = <<>> THEN FALSE
    ELSE IF a = <<>> THEN TRUE
    ELSE IF Head(a) # Head(b) THEN Head(a) < Head(b)
    ELSE StrLess(Tail(a), Tail(b))

\* str() of a non-negative integer
RECURSIVE IntToStr(_)
IntToStr(i) ==
    IF i < 10 THEN <<48 + i>> ELSE IntToStr(i \div 10) \o <<48 + (i % 10)>>

IsDigits(t) == t # <<>> /\ \A i \in 1..Len(t) : t[i] \in 48..57

RECURSIVE ParseDigits(_)
ParseDigits(t) ==
    IF t = <<>> THEN 0
    ELSE 10 * ParseDigits(SubSeq(t, 1, Len(t) - 1)) + (t[Len(t)] - 48)

\* ------------------------------------------------------------------ columns
Required == <<"PART NUMBER", "DESCRIPTION", "LENGTH", "QTY.">>
final_columns == <<"PART NUMBER", "DESCRIPTION", "LENGTH", "QTY.">>

Row(pn, d, l, q) ==
    [c \in Range(Required) |->
        CASE c = "PART NUMBER" -> pn
          [] c = "DESCRIPTION" -> d
          [] c = "LENGTH" -> l
          [] OTHER -> q]

Col(df, c) == [i \in 1..Len(df) |-> df[i][c]]

SetCol(df, c, col) ==
    [i \in 1..Len(df) |-> [df[i] EXCEPT ![c] = col[i]]]

\* dtype pandas infers for a column of a sheet
Dtype(col) ==
    IF Len(col) = 0 THEN "object"
    ELSE IF \E i \in 1..Len(col) : IsStr(col[i]) THEN "object"
    ELSE IF \E i \in 1..Len(col) : IsNull(col[i]) THEN "float64"
    ELSE "int64"

\* ------------------------------------------------------------------ read
\* strings pd.read_excel turns into NaN by default: "", NA, N/A, nan, NaN,
\* null, NULL, None
NaTokens ==
    { <<>>, <<78, 65>>, <<78, 47, 65>>, <<110, 97, 110>>, <<78, 97, 78>>,
      <<110, 117, 108, 108>>, <<78, 85, 76, 76>>, <<78, 111, 110, 101>> }

ReadCell(cell) ==
    IF IsStr(cell) /\ cell.s \in NaTokens THEN NaN ELSE cell

\* pd.read_excel(uploaded_file): the data rows of the first sheet
read_excel(file) ==
    [i \in 1..Len(file.rows) |->
        [c \in DOMAIN file.rows[i] |-> ReadCell(file.rows[i][c])]]

\* ------------------------------------------------------------------ clean
\* df["DESCRIPTION"].fillna("")
Fillna(col, v) == [i \in 1..Len(col) |-> IF IsNull(col[i]) THEN v ELSE col[i]]

\* .str is refused on a numeric column
StrAccessorOk(col) == Dtype(col) = "object"

\* .str.strip(): a value that is not a string becomes NaN
StrStrip(col) ==
    [i \in 1..Len(col) |-> IF IsStr(col[i]) THEN Str(Strip(col[i].s)) ELSE NaN]

\* .astype(str) that leaves a missing value missing
AsTypeStrKeepNull(col) ==
    [i \in 1..Len(col) |->
        IF IsStr(col[i]) \/ IsNull(col[i]) THEN col[i]
        ELSE Str(IntToStr(col[i].n))]

\* .astype(str)
AsTypeStr(col) ==
    [i \in 1..Len(col) |->
        IF IsStr(col[i]) THEN col[i]
        ELSE IF IsNull(col[i]) THEN Str(<<110, 97, 110>>)
        ELSE IF Dtype(col) = "float64"
             THEN Str(IntToStr(col[i].n) \o <<46, 48>>)
             ELSE Str(IntToStr(col[i].n))]

\* pd.to_numeric(col, errors="coerce")
ToNumeric(col) ==
    [i \in 1..Len(col) |->
        IF IsNum(col[i]) THEN col[i]
        ELSE IF IsStr(col[i]) /\ IsDigits(col[i].s)
             THEN Num(ParseDigits(col[i].s))
             ELSE NaN]

\* lines 49-56 raise: a required column is absent (KeyError) or the
\* DESCRIPTION column is numeric (AttributeError of .str)
CleanOk(file) ==
    /\ Range(Required) \subseteq Range(file.columns)
    /\ StrAccessorOk(Fillna(Col(read_excel(file), "DESCRIPTION"), Str(<<>>)))

\* lines 49-56
Clean(df) ==
    LET d1 == SetCol(df, "DESCRIPTION",
                     StrStrip(Fillna(Col(df, "DESCRIPTION"), Str(<<>>))))
        d2 == SetCol(d1, "LENGTH", Fillna(Col(d1, "LENGTH"), Str(<<>>)))
        d3 == SetCol(d2, "PART NUMBER",
                     StrStrip(AsTypeStr(Col(d2, "PART NUMBER"))))
        d4 == SetCol(d3, "QTY.", Fillna(ToNumeric(Col(d3, "QTY.")), Num(0)))
    IN d4

\* ------------------------------------------------------------------ merge
\* pd.concat(all_dataframes, ignore_index=True)
RECURSIVE Concat(_)
Concat(dfs) ==
    IF dfs = <<>> THEN <<>> ELSE Head(dfs) \o Concat(Tail(dfs))

\* order of two values of a key column: numbers before strings, numbers by
\* value, strings as Python compares them
ValLess(a, b) ==
    IF IsNum(a) /\ IsNum(b) THEN a.n < b.n
    ELSE IF IsNum(a) /\ IsStr(b) THEN TRUE
    ELSE IF IsStr(a) /\ IsStr(b) THEN StrLess(a.s, b.s)
    ELSE FALSE

\* order of two rows by ["LENGTH", "DESCRIPTION"]
KeyLessLengthFirst(r1, r2) ==
    \/ ValLess(r1["LENGTH"], r2["LENGTH"])
    \/ /\ r1["LENGTH"] = r2["LENGTH"]
       /\ ValLess(r1["DESCRIPTION"], r2["DESCRIPTION"])

\* order of two rows by ["DESCRIPTION", "LENGTH"]
KeyLess(r1, r2) ==
    \/ ValLess(r1["DESCRIPTION"], r2["DESCRIPTION"])
    \/ /\ r1["DESCRIPTION"] = r2["DESCRIPTION"]
       /\ ValLess(r1["LENGTH"], r2["LENGTH"])

SameKey(r1, r2) ==
    /\ r1["DESCRIPTION"] = r2["DESCRIPTION"]
    /\ r1["LENGTH"] = r2["LENGTH"]

\* groupby(...) drops the rows that have a null key (dropna=True)
HasKey(r) == ~IsNull(r["DESCRIPTION"]) /\ ~IsNull(r["LENGTH"])

RECURSIVE SumQty(_)
SumQty(df) ==
    IF df = <<>> THEN 0 ELSE Head(df)["QTY."].n + SumQty(Tail(df))

\* agg "first": the first value of the group that is not null
RECURSIVE First(_)
First(col) ==
    IF col = <<>> THEN NaN
    ELSE IF ~IsNull(Head(col)) THEN Head(col)
    ELSE First(Tail(col))

\* the rows of one group, in the order of the combined table
Members(df, r) == SelectSeq(df, LAMBDA x : HasKey(x) /\ SameKey(x, r))

\* one aggregated row
Agg(df, r) ==
    Row(First(Col(Members(df, r), "PART NUMBER")),
        r["DESCRIPTION"], r["LENGTH"], Num(SumQty(Members(df, r))))

\* the first row of each group, in the order of the combined table
RECURSIVE GroupHeads(_, _)
GroupHeads(df, seen) ==
    IF df = <<>> THEN <<>>
    ELSE IF ~HasKey(Head(df)) \/ \E x \in seen : SameKey(x, Head(df))
         THEN GroupHeads(Tail(df), seen)
         ELSE <<Head(df)>> \o GroupHeads(Tail(df), seen \cup {Head(df)})

\* stable insertion of a row into a sequence sorted by KeyLess
RECURSIVE Insert(_, _)
Insert(sorted, r) ==
    IF sorted = <<>> THEN <<r>>
    ELSE IF KeyLess(r, Head(sorted)) THEN <<r>> \o sorted
    ELSE <<Head(sorted)>> \o Insert(Tail(sorted), r)

\* sort_values(by=["DESCRIPTION", "LENGTH"]), a stable sort
RECURSIVE SortValues(_)
SortValues(df) ==
    IF df = <<>> THEN <<>>
    ELSE Insert(SortValues(SubSeq(df, 1, Len(df) - 1)), df[Len(df)])

\* groupby(["DESCRIPTION", "LENGTH"]).agg(...).reset_index(): one row per
\* key, the keys in sorted order (sort=True)
GroupBy(df) ==
    LET heads == SortValues(GroupHeads(df, {}))
    IN [i \in 1..Len(heads) |-> Agg(df, heads[i])]

\* the table without the filter of line 102
KeepBlank(df) == df

\* merged_df[merged_df["DESCRIPTION"] != ""]
DropBlank(df) == SelectSeq(df, LAMBDA r : r["DESCRIPTION"] # Str(<<>>))

\* lines 80-111
Merge(dfs) == SortValues(DropBlank(GroupBy(Concat(dfs))))

\* ------------------------------------------------------------------ export
\* a cell as xlsxwriter stores it: NaN and the empty string leave it blank
WriteCell(v) == IF IsStr(v) /\ v.s = <<>> THEN NaN ELSE v

\* to_excel(df): one sheet, the header and the rows, no index
to_excel(df) ==
    [readable |-> TRUE,
     columns |-> final_columns,
     rows |-> [i \in 1..Len(df) |->
                 [c \in DOMAIN df[i] |-> WriteCell(df[i][c])]],
     displayable |-> TRUE]

\* ------------------------------------------------------------------ inputs
\* the rows a sheet can hold: the row (P, A, L, 1), every row that differs
\* from it in one cell, and a row with a number for a description and a text
\* for a quantity
DescCells ==
    { NaN, Str(<<32>>), Num(7), Str(<<65>>), Str(<<65, 32>>),
      Str(<<78, 65, 32>>) }
LengthCells == { NaN, Str(<<76>>), Str(<<76, 32>>) }
PartCells == { NaN, Str(<<80>>), Str(<<32, 81>>) }
QtyCells == { NaN, Num(1), Num(2), Str(<<88>>) }

BaseRow == Row(Str(<<80>>), Str(<<65>>), Str(<<76>>), Num(1))

SheetRows ==
    {Row(Str(<<80>>), d, Str(<<76>>), Num(1)) : d \in DescCells}
    \cup {Row(Str(<<80>>), Str(<<65>>), l, Num(1)) : l \in LengthCells}
    \cup {Row(pn, Str(<<65>>), Str(<<76>>), Num(1)) : pn \in PartCells}
    \cup {Row(Str(<<80>>), Str(<<65>>), Str(<<76>>), q) : q \in QtyCells}
    \cup {Row(Str(<<80>>), Num(7), Str(<<76>>), Str(<<88>>))}

\* the sequences of at most n rows
RowSeqs(n) == UNION {[1..k -> SheetRows] : k \in 0..n}

\* a workbook pd.read_excel cannot parse
Unreadable ==
    [readable |-> FALSE, columns |-> <<>>, rows |-> <<>>, displayable |-> FALSE]

\* a workbook with the four columns
Workbook(rows, displayable) ==
    [readable |-> TRUE, columns |-> Required, rows |-> rows,
     displayable |-> displayable]

\* a workbook that lacks the column c
WithoutColumn(c, rows) ==
    LET cols == SelectSeq(Required, LAMBDA x : x # c)
    IN [readable |-> TRUE,
        columns |-> cols,
        rows |-> [i \in 1..Len(rows) |-> [x \in Range(cols) |-> rows[i][x]]],
        displayable |-> FALSE]

RECURSIVE TotalRows(_)
TotalRows(files) ==
    IF files = <<>> THEN 0 ELSE Len(Head(files).rows) + TotalRows(Tail(files))

RowsLeft == MaxTotalRows - TotalRows(uploaded_files)

\* ------------------------------------------------------------------ script
Init ==
    /\ nfiles \in 0..MaxFiles
    /\ uploaded_files = <<>>
    /\ pc = "start"
    /\ all_dataframes = <<>>
    /\ appended_from = <<>>
    /\ error_files = {}
    /\ merged_df = <<>>
    /\ merges = 0
    /\ downloads = <<>>

\* line 126: nothing was uploaded
NoUpload ==
    /\ pc = "start"
    /\ nfiles = 0
    /\ pc' = "done"
    /\ UNCHANGED <<nfiles, uploaded_files, all_dataframes, appended_from,
                   error_files, merged_df, merges, downloads>>

\* lines 33-37
StartProcessing ==
    /\ pc = "start"
    /\ nfiles > 0
    /\ all_dataframes' = <<>>
    /\ error_files' = {}
    /\ pc' = "loop"
    /\ UNCHANGED <<nfiles, uploaded_files, appended_from, merged_df, merges,
                   downloads>>

InLoop == pc = "loop" /\ Len(uploaded_files) < nfiles

\* lines 71-73: the file is recorded under its name
Except(file) ==
    /\ uploaded_files' = Append(uploaded_files, file)
    /\ error_files' = error_files \cup {Len(uploaded_files) + 1}

\* one iteration: line 42 raises
ReadFails ==
    /\ InLoop
    /\ Except(Unreadable)
    /\ UNCHANGED <<nfiles, pc, all_dataframes, appended_from, merged_df,
                   merges, downloads>>

\* one iteration: lines 49-56 raise, for a numeric DESCRIPTION column or for
\* a missing column (the KeyError does not depend on the rows: the sheets
\* without a column have no row or the one row BaseRow)
CleanFails ==
    /\ InLoop
    /\ \E file \in {Workbook(rows, FALSE) : rows \in RowSeqs(RowsLeft)}
                  \cup {WithoutColumn(c, rows) :
                           c \in Range(Required),
                           rows \in IF RowsLeft > 0
                                    THEN {<<>>, <<BaseRow>>}
                                    ELSE {<<>>}} :
         /\ ~CleanOk(file)
         /\ Except(file)
    /\ UNCHANGED <<nfiles, pc, all_dataframes, appended_from, merged_df,
                   merges, downloads>>

\* line 58
AppendFrame(file) ==
    /\ all_dataframes' = Append(all_dataframes, Clean(read_excel(file)))
    /\ appended_from' = Append(appended_from, Len(uploaded_files) + 1)

\* one iteration: the frame is appended (line 58), then the second read or
\* the display of lines 62-69 raises
DisplayFails ==
    /\ InLoop
    /\ \E rows \in RowSeqs(RowsLeft) :
         LET file == Workbook(rows, FALSE)
         IN /\ CleanOk(file)
            /\ AppendFrame(file)
            /\ Except(file)
    /\ UNCHANGED <<nfiles, pc, merged_df, merges, downloads>>

\* one iteration: lines 42-69 without an exception
FileOk ==
    /\ InLoop
    /\ \E rows \in RowSeqs(RowsLeft) :
         LET file == Workbook(rows, TRUE)
         IN /\ CleanOk(file)
            /\ AppendFrame(file)
            /\ uploaded_files' = Append(uploaded_files, file)
    /\ UNCHANGED <<nfiles, pc, error_files, merged_df, merges, downloads>>

AfterLoop == pc = "loop" /\ Len(uploaded_files) = nfiles

\* lines 75-76
NoValidData ==
    /\ AfterLoop
    /\ all_dataframes = <<>>
    /\ pc' = "done"
    /\ UNCHANGED <<nfiles, uploaded_files, all_dataframes, appended_from,
                   error_files, merged_df, merges, downloads>>

\* lines 77-124
MergeAndExport ==
    /\ AfterLoop
    /\ all_dataframes # <<>>
    /\ merged_df' = Merge(all_dataframes)
    /\ merges' = merges + 1
    /\ downloads' = Append(downloads, to_excel(Merge(all_dataframes)))
    /\ pc' = "done"
    /\ UNCHANGED <<nfiles, uploaded_files, all_dataframes, appended_from,
                   error_files>>

Next ==
    \/ NoUpload
    \/ StartProcessing
    \/ ReadFails
    \/ CleanFails
    \/ DisplayFails
    \/ FileOk
    \/ NoValidData
    \/ MergeAndExport

Spec == Init /\ [][Next]_vars

\* ------------------------------------------------------------------ claims
\* the Combined Table of line 80
combined_df == Concat(all_dataframes)

\* the sheet rows behind the Combined Table, row for row
InputRows ==
    Concat([j \in 1..Len(appended_from) |->
               uploaded_files[appended_from[j]].rows])

Exported == pc = "done" /\ merges > 0

\* a description cell that is missing, empty or only whitespace
BlankCell(cell) == IsNull(cell) \/ (IsStr(cell) /\ Strip(cell.s) = <<>>)

\* a quantity cell that is missing or is no number
NoNumber(cell) == IsNull(cell) \/ (IsStr(cell) /\ ~IsDigits(cell.s))

RowsOfKey(df, r) == SelectSeq(df, LAMBDA x : SameKey(x, r))

MergedAt(r) == {i \in 1..Len(merged_df) : SameKey(merged_df[i], r)}

RECURSIVE SumOver(_, _)
SumOver(f, S) ==
    IF S = {} THEN 0
    ELSE LET x == CHOOSE y \in S : TRUE IN f[x] + SumOver(f, S \ {x})

\* C1: the merged output has exactly one row for every (DESCRIPTION, LENGTH)
\* pair of the Combined Table whose description is not the empty string, no
\* other row, and the QTY. of that row is the sum of QTY. over the Combined
\* Table rows of that pair.
C1_OneRowPerPairWithSum ==
    Exported =>
        /\ \A j \in 1..Len(combined_df) :
              combined_df[j]["DESCRIPTION"] # Str(<<>>) =>
                 Cardinality(MergedAt(combined_df[j])) = 1
        /\ \A i \in 1..Len(merged_df) :
              /\ merged_df[i]["DESCRIPTION"] # Str(<<>>)
              /\ RowsOfKey(combined_df, merged_df[i]) # <<>>
              /\ merged_df[i]["QTY."] =
                    Num(SumQty(RowsOfKey(combined_df, merged_df[i])))

\* C2: the sum of QTY. over the merged output equals the sum of the
\* normalized QTY. over the rows of the files read and cleaned successfully
\* whose description cell is not blank.
C2_QuantityConserved ==
    Exported =>
        SumQty(merged_df) =
            SumOver([j \in 1..Len(InputRows) |-> combined_df[j]["QTY."].n],
                    {j \in 1..Len(InputRows) :
                        ~BlankCell(InputRows[j]["DESCRIPTION"])})

\* C3: after the loop every file is processed, a file of error_files has no
\* frame in all_dataframes, and every other file has exactly one frame, which
\* holds all of its rows.
C3_FailedFilesSkipped ==
    pc = "done" /\ nfiles > 0 =>
        /\ Len(uploaded_files) = nfiles
        /\ \A i \in error_files : i \notin Range(appended_from)
        /\ \A i \in (1..nfiles) \ error_files :
              /\ Cardinality({j \in 1..Len(appended_from) :
                                 appended_from[j] = i}) = 1
              /\ \A j \in 1..Len(appended_from) :
                    appended_from[j] = i =>
                       Len(all_dataframes[j]) = Len(uploaded_files[i].rows)

\* the text of a part number cell: str() of it, stripped
PartText(cell) ==
    IF IsNull(cell) THEN Str(<<110, 97, 110>>)
    ELSE IF IsStr(cell) THEN Str(Strip(cell.s))
    ELSE Str(IntToStr(cell.n))

FirstOfKey(r) ==
    CHOOSE j \in 1..Len(combined_df) :
        /\ SameKey(combined_df[j], r)
        /\ \A k \in 1..(j - 1) : ~SameKey(combined_df[k], r)

C5_NoBlankDescription ==
    Exported =>
        /\ \A i \in 1..Len(merged_df) :
              /\ IsStr(merged_df[i]["DESCRIPTION"])
              /\ merged_df[i]["DESCRIPTION"].s # <<>>
              /\ merged_df[i]["QTY."].n =
                    SumOver([j \in 1..Len(InputRows) |->
                                combined_df[j]["QTY."].n],
                            {j \in 1..Len(InputRows) :
                                /\ ~BlankCell(InputRows[j]["DESCRIPTION"])
                                /\ SameKey(combined_df[j], merged_df[i])})
        /\ \A j \in 1..Len(InputRows) :
              BlankCell(InputRows[j]["DESCRIPTION"]) =>
                 MergedAt(combined_df[j]) = {}

\* a missing and a whitespace-only description next to a row that is kept
C5_Witness ==
    /\ Exported
    /\ merged_df # <<>>
    /\ \E j \in 1..Len(InputRows) : IsNull(InputRows[j]["DESCRIPTION"])
    /\ \E j \in 1..Len(InputRows) :
          /\ InputRows[j]["DESCRIPTION"] = Str(<<32>>)
          /\ combined_df[j]["QTY."].n > 0

\* (DESCRIPTION, LENGTH) of r1 before that of r2, as Python orders strings
Ascending(r1, r2) ==
    \/ StrLess(r1["DESCRIPTION"].s, r2["DESCRIPTION"].s)
    \/ /\ r1["DESCRIPTION"].s = r2["DESCRIPTION"].s
       /\ StrLess(r1["LENGTH"].s, r2["LENGTH"].s)

\* C6: the merged output is in strictly ascending order of (DESCRIPTION,
\* LENGTH), so no pair occurs twice, and a row with a text description is
\* merged under its LENGTH as it stands in the sheet, not stripped.
C6_SortedNoDuplicates ==
    Exported =>
        /\ \A i \in 1..Len(merged_df) :
              IsStr(merged_df[i]["DESCRIPTION"]) /\ IsStr(merged_df[i]["LENGTH"])
        /\ \A i, k \in 1..Len(merged_df) :
              i < k => Ascending(merged_df[i], merged_df[k])
        /\ \A j \in 1..Len(InputRows) :
              IsStr(InputRows[j]["DESCRIPTION"])
              /\ ~BlankCell(InputRows[j]["DESCRIPTION"]) =>
                 \E i \in 1..Len(merged_df) :
                    /\ merged_df[i]["DESCRIPTION"].s =
                          Strip(InputRows[j]["DESCRIPTION"].s)
                    /\ merged_df[i]["LENGTH"].s = InputRows[j]["LENGTH"].s

\* three rows: two lengths that differ by a trailing blank under one
\* description, and a second description with a smaller length
C6_Witness ==
    /\ Exported
    /\ Len(merged_df) = 3
    /\ merged_df[1]["LENGTH"] = Str(<<76>>)
    /\ merged_df[2]["LENGTH"] = Str(<<76, 32>>)
    /\ merged_df[2]["DESCRIPTION"] = merged_df[1]["DESCRIPTION"]
    /\ merged_df[3]["LENGTH"] = Str(<<76>>)

\* C7: no merge and no download when no file is uploaded or every uploaded
\* file is recorded as an error; one merge and one download when a file is
\* processed without an error.
C7_MergeOnlyOnSuccess ==
    pc = "done" =>
        /\ error_files = 1..nfiles => merges = 0 /\ downloads = <<>>
        /\ error_files # 1..nfiles => merges = 1 /\ Len(downloads) = 1

\* the table the script produces from the one file f
MergeOfUpload(f) == Merge(<<Clean(read_excel(f))>>)

\* C8: the merged workbook, uploaded alone, is cleaned without an error and
\* merges to the same table.
C8_Idempotent ==
    Exported =>
        /\ CleanOk(downloads[1])
        /\ MergeOfUpload(downloads[1]) = merged_df

C10_KeysNeverNull ==
    \A j \in 1..Len(combined_df) :
        /\ ~IsNull(combined_df[j]["DESCRIPTION"])
        /\ ~IsNull(combined_df[j]["LENGTH"])

====
